---- MODULE Spec2Model ----
(***************************************************************************)
(* The task list of the Task Manager: a JSON file read, changed and        *)
(* written back by the handlers of two Express routers, the JSON API       *)
(* (routes/taskRoutes.js of the API app) and the HTML view (the same file  *)
(* of the EJS app).                                                        *)
(*                                                                         *)
(* JavaScript values are tagged records, the file is a sequence of JSON    *)
(* tokens (white space, which JSON.parse skips, is left out), and a route  *)
(* parameter is a sequence of one-character strings.                       *)
(***************************************************************************)
EXTENDS Integers, Sequences, FiniteSets, TLC

(* ------------------------------------------------------------------ *)
(* Bounds of the model                                                 *)
(* ------------------------------------------------------------------ *)

\* The longest task list an add is still tried on.
MaxLen == 3

(* ------------------------------------------------------------------ *)
(* JavaScript values                                                   *)
(* ------------------------------------------------------------------ *)

Undefined == [kind |-> "undefined"]
Null == [kind |-> "null"]
Obj == [kind |-> "obj"]
Str(s) == [kind |-> "str", s |-> s]
Num(n) == [kind |-> "num", n |-> n]
Arr(items) == [kind |-> "arr", items |-> items]

\* Falsy with the empty string let through (a test for null and undefined only).
FalsyNullish(v) == v.kind \in {"undefined", "null"}

\* ToBoolean(v) is false: what `!task` tests.
Falsy(v) ==
    \/ v.kind \in {"undefined", "null"}
    \/ v.kind = "str" /\ v.s = ""
    \/ v.kind = "num" /\ v.n = 0

(* ------------------------------------------------------------------ *)
(* JSON.stringify and JSON.parse over tokens                           *)
(* ------------------------------------------------------------------ *)

Tok(t, v) == [t |-> t, v |-> v]
LBrack == Tok("[", Undefined)
RBrack == Tok("]", Undefined)
Comma == Tok(",", Undefined)
LBrace == Tok("{", Undefined)
RBrace == Tok("}", Undefined)

RECURSIVE JSONstringify(_)
RECURSIVE StringifyItems(_)

\* The elements of an array, separated by commas.
StringifyItems(items) ==
    IF items = <<>> THEN <<>>
    ELSE IF Len(items) = 1 THEN JSONstringify(items[1])
    ELSE JSONstringify(items[1]) \o <<Comma>> \o StringifyItems(Tail(items))

\* JSON.stringify(value, null, 2): the text of a value, as tokens.
JSONstringify(v) ==
    CASE v.kind = "arr" -> <<LBrack>> \o StringifyItems(v.items) \o <<RBrack>>
      [] v.kind = "obj" -> <<LBrace, RBrace>>
      [] v.kind = "str" -> <<Tok("str", v)>>
      [] v.kind = "num" -> <<Tok("num", v)>>
      [] OTHER -> <<Tok("null", Null)>>

ParseFail == [ok |-> FALSE, val |-> Undefined, rest |-> <<>>]
ParseOk(v, rest) == [ok |-> TRUE, val |-> v, rest |-> rest]

RECURSIVE ParseValue(_)
RECURSIVE ParseElements(_, _)

\* The elements of an array after its first one: `, value` repeated up to `]`.
ParseElements(acc, toks) ==
    IF toks = <<>> THEN ParseFail
    ELSE IF Head(toks) = RBrack THEN ParseOk(Arr(acc), Tail(toks))
    ELSE IF Head(toks) = Comma
    THEN LET r == ParseValue(Tail(toks))
         IN IF r.ok THEN ParseElements(Append(acc, r.val), r.rest) ELSE ParseFail
    ELSE ParseFail

\* One JSON value at the head of the tokens.
ParseValue(toks) ==
    IF toks = <<>> THEN ParseFail
    ELSE LET h == Head(toks)
             t == Tail(toks)
         IN CASE h.t \in {"str", "num", "null"} -> ParseOk(h.v, t)
              [] h.t = "{" ->
                    IF t # <<>> /\ Head(t) = RBrace
                    THEN ParseOk(Obj, Tail(t)) ELSE ParseFail
              [] h.t = "[" ->
                    IF t # <<>> /\ Head(t) = RBrack
                    THEN ParseOk(Arr(<<>>), Tail(t))
                    ELSE LET r == ParseValue(t)
                         IN IF r.ok THEN ParseElements(<<r.val>>, r.rest)
                            ELSE ParseFail
              [] OTHER -> ParseFail

\* JSON.parse(data): one value and nothing after it, or a SyntaxError (~ok).
JSONparse(toks) ==
    LET r == ParseValue(toks)
    IN IF r.ok /\ r.rest = <<>> THEN r ELSE ParseFail

(* ------------------------------------------------------------------ *)
(* parseInt(string), no radix given                                    *)
(* ------------------------------------------------------------------ *)

NaN == [nan |-> TRUE, n |-> 0]
Finite(n) == [nan |-> FALSE, n |-> n]

DigitValue(c) ==
    CASE c = "0" -> 0 [] c = "1" -> 1 [] c = "2" -> 2 [] c = "3" -> 3
      [] c = "4" -> 4 [] c = "5" -> 5 [] c = "6" -> 6 [] c = "7" -> 7
      [] c = "8" -> 8 [] c = "9" -> 9
      [] c \in {"a", "A"} -> 10 [] c \in {"b", "B"} -> 11
      [] c \in {"c", "C"} -> 12 [] c \in {"d", "D"} -> 13
      [] c \in {"e", "E"} -> 14 [] c \in {"f", "F"} -> 15
      [] OTHER -> 99

RECURSIVE TrimStart(_)
TrimStart(s) ==
    IF s # <<>> /\ Head(s) = " " THEN TrimStart(Tail(s)) ELSE s

\* The value of the longest prefix of s made of digits of radix R; seen says
\* whether there was at least one digit.
RECURSIVE DigitsPrefix(_, _, _, _)
DigitsPrefix(s, R, acc, seen) ==
    IF s # <<>> /\ DigitValue(Head(s)) < R
    THEN DigitsPrefix(Tail(s), R, acc * R + DigitValue(Head(s)), TRUE)
    ELSE [seen |-> seen, n |-> acc]

parseInt(s) ==
    LET t == TrimStart(s)
        signed == t # <<>> /\ Head(t) \in {"+", "-"}
        sign == IF t # <<>> /\ Head(t) = "-" THEN -1 ELSE 1
        u == IF signed THEN Tail(t) ELSE t
        hex == Len(u) >= 2 /\ u[1] = "0" /\ u[2] \in {"x", "X"}
        R == IF hex THEN 16 ELSE 10
        d == DigitsPrefix(IF hex THEN Tail(Tail(u)) ELSE u, R, 0, FALSE)
    IN IF d.seen THEN Finite(sign * d.n) ELSE NaN

(* ------------------------------------------------------------------ *)
(* The store: tasks.json                                               *)
(* ------------------------------------------------------------------ *)

\* filePath: the file is absent, or holds text (tokens).
Absent == [exists |-> FALSE, data |-> <<>>]
Holding(data) == [exists |-> TRUE, data |-> data]

\* readTasks: the parsed content of the file, of whatever type it is; the
\* empty array when reading (no file) or parsing (SyntaxError) throws.
readTasks(f) ==
    IF ~f.exists THEN Arr(<<>>)
    ELSE LET p == JSONparse(f.data)
         IN IF p.ok THEN p.val ELSE Arr(<<>>)

\* writeTasks / fs.writeFileSync(filePath, JSON.stringify(tasks, null, 2)):
\* the file, created when absent, holding the whole text of tasks.
writeTasks(tasks) == Holding(JSONstringify(tasks))

(* ------------------------------------------------------------------ *)
(* Responses                                                           *)
(* ------------------------------------------------------------------ *)

\* status, how the body is sent, its text (message, error or target), and the
\* tasks and deletedTask fields of a JSON body (Undefined when not sent).
Response(status, kind, text, tasks, deletedTask) ==
    [status |-> status, kind |-> kind, text |-> text,
     tasks |-> tasks, deletedTask |-> deletedTask]

NoResponse == Response(0, "none", "", Undefined, Undefined)

\* A handler that throws: Express answers 500 and the handler did nothing more.
Thrown == Response(500, "TypeError", "", Undefined, Undefined)

\* What a handler did: the file after it and the response sent.
Outcome(f, r) == [file |-> f, res |-> r]

(* ------------------------------------------------------------------ *)
(* Array methods on a loaded value                                     *)
(* ------------------------------------------------------------------ *)

\* tasks.push and tasks.splice exist: only an array has them.
IsArray(tasks) == tasks.kind = "arr"

\* push putting the task at the front (unshift).
pushFront(tasks, task) == Arr(<<task>> \o tasks.items)

\* tasks.push(task)
push(tasks, task) == Arr(Append(tasks.items, task))

\* splice removing the last element whatever the index (pop).
spliceLast(tasks, index) ==
    [removed |-> Arr(SubSeq(tasks.items, Len(tasks.items), Len(tasks.items))),
     tasks |-> Arr(SubSeq(tasks.items, 1, Len(tasks.items) - 1))]

\* tasks.splice(index, 1): the removed elements (an array) and the array left.
\* A negative index counts from the end, an index past the end removes nothing.
splice(tasks, index) ==
    LET len == Len(tasks.items)
        start == IF index < 0
                 THEN (IF len + index < 0 THEN 0 ELSE len + index)
                 ELSE (IF index > len THEN len ELSE index)
        count == IF len - start < 1 THEN len - start ELSE 1
    IN [removed |-> Arr(SubSeq(tasks.items, start + 1, start + count)),
        tasks |-> Arr(SubSeq(tasks.items, 1, start)
                      \o SubSeq(tasks.items, start + count + 1, len))]

\* InvalidIndex without its `index < 0` test.
InvalidIndexNoLowerBound(tasks, index) ==
    \/ index.nan
    \/ tasks.kind = "arr" /\ index.n >= Len(tasks.items)
    \/ tasks.kind = "str" /\ index.n >= Len(tasks.s)

\* isNaN(index) || index < 0 || index >= tasks.length, where tasks.length is a
\* number for an array and a string and undefined (every comparison false)
\* for an object and a number.
InvalidIndex(tasks, index) ==
    \/ index.nan
    \/ index.n < 0
    \/ tasks.kind = "arr" /\ index.n >= Len(tasks.items)
    \/ tasks.kind = "str" /\ index.n >= Len(tasks.s)

\* Reading tasks.length throws: tasks is null and the test got that far.
LengthThrows(tasks, index) ==
    tasks.kind = "null" /\ ~index.nan /\ index.n >= 0

(* ------------------------------------------------------------------ *)
(* The JSON API router                                                 *)
(* ------------------------------------------------------------------ *)

\* router.get("/"): res.json(readTasks()).
ApiList(f) == Outcome(f, Response(200, "json", "", readTasks(f), Undefined))

\* router.post("/") after `!task` passed, on the tasks it loaded.
ApiPostLoaded(f, tasks, task) ==
    IF ~IsArray(tasks) THEN Outcome(f, Thrown)
    ELSE Outcome(writeTasks(push(tasks, task)),
                 Response(200, "json", "Task added successfully",
                          push(tasks, task), Undefined))

\* ApiPost loading and writing the list back before it tests the task.
ApiPostWriteFirst(f, task) ==
    IF Falsy(task)
    THEN Outcome(writeTasks(readTasks(f)),
                 Response(400, "json", "Task is required", Undefined, Undefined))
    ELSE ApiPostLoaded(f, readTasks(f), task)

\* router.post("/")
ApiPost(f, task) ==
    IF Falsy(task)
    THEN Outcome(f, Response(400, "json", "Task is required", Undefined, Undefined))
    ELSE ApiPostLoaded(f, readTasks(f), task)

\* router.delete("/:index") on the tasks it loaded.
ApiDeleteLoaded(f, tasks, param) ==
    LET index == parseInt(param)
    IN IF LengthThrows(tasks, index) THEN Outcome(f, Thrown)
       ELSE IF InvalidIndex(tasks, index)
       THEN Outcome(f, Response(400, "json", "Invalid task index",
                                Undefined, Undefined))
       ELSE IF ~IsArray(tasks) THEN Outcome(f, Thrown)
       ELSE LET sp == splice(tasks, index.n)
            IN Outcome(writeTasks(sp.tasks),
                       Response(200, "json", "Task deleted successfully",
                                sp.tasks, sp.removed))

\* router.delete("/:index")
ApiDelete(f, param) == ApiDeleteLoaded(f, readTasks(f), param)

(* ------------------------------------------------------------------ *)
(* The HTML view router                                                *)
(* ------------------------------------------------------------------ *)

\* router.get("/"): res.render("index", { tasks }).
ViewList(f) == Outcome(f, Response(200, "render", "index", readTasks(f), Undefined))

\* router.post("/add") after `!task` passed, on the tasks it loaded.
ViewPostLoaded(f, tasks, task) ==
    IF ~IsArray(tasks) THEN Outcome(f, Thrown)
    ELSE Outcome(Holding(JSONstringify(push(tasks, task))),
                 Response(302, "redirect", "/", Undefined, Undefined))

\* router.post("/add")
ViewPost(f, task) ==
    IF Falsy(task)
    THEN Outcome(f, Response(400, "text", "Task is required", Undefined, Undefined))
    ELSE ViewPostLoaded(f, readTasks(f), task)

\* ViewDeleteLoaded without its isNaN(index) test: splice takes NaN as 0.
ViewDeleteLoadedNoNaNTest(f, tasks, param) ==
    LET index == parseInt(param)
    IN IF LengthThrows(tasks, index) THEN Outcome(f, Thrown)
       ELSE IF ~index.nan /\ InvalidIndex(tasks, index)
       THEN Outcome(f, Response(400, "text", "Invalid task index",
                                Undefined, Undefined))
       ELSE IF index.nan /\ IsArray(tasks) /\ tasks.items = <<>>
       THEN Outcome(f, Response(400, "text", "Invalid task index",
                                Undefined, Undefined))
       ELSE IF ~IsArray(tasks) THEN Outcome(f, Thrown)
       ELSE Outcome(Holding(JSONstringify(splice(tasks, index.n).tasks)),
                    Response(302, "redirect", "/", Undefined, Undefined))

\* router.get("/delete/:index") on the tasks it loaded.
ViewDeleteLoaded(f, tasks, param) ==
    LET index == parseInt(param)
    IN IF LengthThrows(tasks, index) THEN Outcome(f, Thrown)
       ELSE IF InvalidIndex(tasks, index)
       THEN Outcome(f, Response(400, "text", "Invalid task index",
                                Undefined, Undefined))
       ELSE IF ~IsArray(tasks) THEN Outcome(f, Thrown)
       ELSE Outcome(Holding(JSONstringify(splice(tasks, index.n).tasks)),
                    Response(302, "redirect", "/", Undefined, Undefined))

\* router.get("/delete/:index")
ViewDelete(f, param) == ViewDeleteLoaded(f, readTasks(f), param)

(* ------------------------------------------------------------------ *)
(* Inputs and initial stores                                           *)
(* ------------------------------------------------------------------ *)

BuyMilk == Str("Buy milk")
WalkDog == Str("Walk dog")

\* The task values a stored list holds.
Tasks == {BuyMilk, WalkDog}

\* req.body.task: absent, null, the empty string, or a task.
TaskInputs == {Undefined, Null, Str("")} \cup Tasks

\* req.params.index: the text of the route parameter.
IndexParams ==
    { <<"0">>, <<"1">>, <<"2">>, <<"5">>, <<"-", "1">>,
      <<"1", ".", "5">>, <<"1", "a", "b", "c">>, <<"a", "b", "c">>,
      <<"0", "x", "1">> }

\* The task lists of at most n tasks.
TaskLists(n) == UNION { [1..k -> Tasks] : k \in 0..n }

\* A file holding a serialized task list.
ListFiles == { writeTasks(Arr(l)) : l \in TaskLists(MaxLen) }

\* A file whose text does not parse: empty, or cut off in the middle.
UnparsableFiles == { Holding(<<>>), Holding(<<LBrack, Tok("str", BuyMilk)>>) }

\* A file whose text parses to something that is not an array.
NonArrayFiles ==
    { Holding(<<LBrace, RBrace>>), Holding(<<Tok("num", Num(7))>>),
      Holding(<<Tok("str", BuyMilk)>>), Holding(<<Tok("null", Null)>>) }

\* The store is "empty": no file, or the text of the empty list.
EmptyFiles == { Absent, writeTasks(Arr(<<>>)) }

(* ------------------------------------------------------------------ *)
(* The reference list: what the calls answered so far amount to        *)
(* ------------------------------------------------------------------ *)

\* The text of a whole integer literal: decimal digits with an optional minus
\* sign, or 0x and hexadecimal digits.
IsDigit(c) == c \in {"0", "1", "2", "3", "4", "5", "6", "7", "8", "9"}
IsDecimalLiteral(param) ==
    LET d == IF param # <<>> /\ Head(param) = "-" THEN Tail(param) ELSE param
    IN d # <<>> /\ \A k \in 1..Len(d) : IsDigit(d[k])
IsHexLiteral(param) ==
    /\ Len(param) >= 3 /\ param[1] = "0" /\ param[2] \in {"x", "X"}
    /\ \A k \in 3..Len(param) : DigitValue(param[k]) < 16
IsIntLiteral(param) == IsDecimalLiteral(param) \/ IsHexLiteral(param)

\* The number the digits d write in radix R.
RECURSIVE RadixValue(_, _)
RadixValue(d, R) ==
    IF d = <<>> THEN 0
    ELSE R * RadixValue(SubSeq(d, 1, Len(d) - 1), R) + DigitValue(d[Len(d)])

\* The integer a whole integer literal writes.
LiteralValue(param) ==
    IF IsHexLiteral(param) THEN RadixValue(Tail(Tail(param)), 16)
    ELSE IF Head(param) = "-" THEN 0 - RadixValue(Tail(param), 10)
    ELSE RadixValue(param, 10)

\* l without its element at position i (from 0).
RemoveAt(l, i) == [k \in 1..(Len(l) - 1) |-> IF k <= i THEN l[k] ELSE l[k + 1]]

\* The call succeeded: 200, or the view's redirect to the list.
Succeeded(r) == r.status \in {200, 302}

\* The reference list after a call: an add that succeeded appends its task, a
\* remove that succeeded removes the position its index names, anything else
\* leaves the list as it is.
RefAfter(l, r, response) ==
    IF ~Succeeded(response) THEN l
    ELSE IF r.op = "add" THEN Append(l, r.task)
    ELSE IF r.op = "remove" /\ IsIntLiteral(r.param)
            /\ LiteralValue(r.param) \in 0..(Len(l) - 1)
    THEN RemoveAt(l, LiteralValue(r.param))
    ELSE l

\* The calls of the scenario, in order.
Request(op, router, task, param) ==
    [op |-> op, router |-> router, task |-> task, param |-> param]
NoRequest == Request("none", "none", Undefined, <<>>)

Scenario ==
    << [op |-> "add", task |-> BuyMilk, param |-> <<>>],
       [op |-> "add", task |-> WalkDog, param |-> <<>>],
       [op |-> "remove", task |-> Undefined, param |-> <<"0">>],
       [op |-> "remove", task |-> Undefined, param |-> <<"5">>] >>

\* How far the calls made so far follow the scenario (-1: they left it); a
\* list() reads only and leaves the position where it is.
ScenAfter(n, r) ==
    IF r.op = "list" THEN n
    ELSE IF n >= 0 /\ n < Len(Scenario)
            /\ Scenario[n + 1] = [op |-> r.op, task |-> r.task, param |-> r.param]
    THEN n + 1
    ELSE -1

(* ------------------------------------------------------------------ *)
(* State                                                               *)
(* ------------------------------------------------------------------ *)

VARIABLES
    file,    \* tasks.json
    req,     \* the last request served
    pre,     \* tasks.json as it was before that request
    res,     \* the response to it
    ref,     \* the reference list (history)
    scen,    \* the position in the scenario (history)
    proc,    \* per server process: where its handler stands
    worder   \* the processes that wrote the file, in order (history)

vars == <<file, req, pre, res, ref, scen, proc, worder>>

Procs == {1, 2}

Idle == [pc |-> "idle", req |-> NoRequest, tasks |-> Undefined,
         snap |-> Absent, res |-> NoResponse]

InitRest ==
    /\ req = NoRequest
    /\ pre = file
    /\ res = NoResponse
    /\ ref = <<>>
    /\ scen = IF file \in EmptyFiles THEN 0 ELSE -1
    /\ proc = [p \in Procs |-> Idle]
    /\ worder = <<>>

\* The store is whatever is on disk when the server starts.
Init ==
    /\ file \in {Absent} \cup ListFiles \cup UnparsableFiles \cup NonArrayFiles
    /\ InitRest

\* The store starts empty.
InitEmpty ==
    /\ file \in EmptyFiles
    /\ InitRest

(* ------------------------------------------------------------------ *)
(* One process: every handler runs from its read to its response       *)
(* ------------------------------------------------------------------ *)

\* Each router names its own tasks.json (./tasks.json, and ../tasks.json
\* beside routes/); here both serve one file, so that every run of either app
\* alone is a run of the model, and so is a run of both on one directory.

\* The list, and the reference list, are short enough for one more add to be
\* tried.
Room ==
    /\ Len(ref) < MaxLen
    /\ LET t == readTasks(file) IN IsArray(t) => Len(t.items) < MaxLen

Serve(r, out) ==
    /\ file' = out.file
    /\ pre' = file
    /\ req' = r
    /\ res' = out.res
    /\ ref' = RefAfter(ref, r, out.res)
    /\ scen' = ScenAfter(scen, r)
    /\ UNCHANGED <<proc, worder>>

ApiGetTasks == Serve(Request("list", "api", Undefined, <<>>), ApiList(file))

ApiPostTask ==
    \E task \in TaskInputs :
        /\ Room
        /\ Serve(Request("add", "api", task, <<>>), ApiPost(file, task))

ApiDeleteTask ==
    \E param \in IndexParams :
        Serve(Request("remove", "api", Undefined, param), ApiDelete(file, param))

ViewHome == Serve(Request("list", "view", Undefined, <<>>), ViewList(file))

ViewAdd ==
    \E task \in TaskInputs :
        /\ Room
        /\ Serve(Request("add", "view", task, <<>>), ViewPost(file, task))

ViewDeleteTask ==
    \E param \in IndexParams :
        Serve(Request("remove", "view", Undefined, param), ViewDelete(file, param))

Next ==
    \/ ApiGetTasks
    \/ ApiPostTask
    \/ ApiDeleteTask
    \/ ViewHome
    \/ ViewAdd
    \/ ViewDeleteTask

Spec == Init /\ [][Next]_vars

SpecEmpty == InitEmpty /\ [][Next]_vars

(* ------------------------------------------------------------------ *)
(* Two server processes on one file: a handler's read and its write    *)
(* are separate steps, and the other process may run in between        *)
(* ------------------------------------------------------------------ *)

\* LoadedTasks read again at the time of the write (as under a lock).
LoadedTasksFresh(p) == readTasks(file)

\* const tasks = readTasks(): what the handler of process p works on.
LoadedTasks(p) == proc[p].tasks

\* A request for POST /tasks or DELETE /tasks/:index reaches process p.
RaceReceive(p) ==
    /\ proc[p].pc = "idle"
    /\ \E r \in { Request("add", "api", t, <<>>) : t \in TaskInputs }
              \cup { Request("remove", "api", Undefined, i) : i \in IndexParams } :
          /\ r.op = "add" => Room
          /\ proc' = [proc EXCEPT ![p].pc = "received", ![p].req = r]
    /\ UNCHANGED <<file, req, pre, res, ref, scen, worder>>

\* The handler up to and including readTasks(); an add without a task is
\* answered before the file is read.
RaceLoad(p) ==
    /\ proc[p].pc = "received"
    /\ IF proc[p].req.op = "add" /\ Falsy(proc[p].req.task)
       THEN proc' = [proc EXCEPT ![p].pc = "done",
                                 ![p].res = ApiPost(file, proc[p].req.task).res]
       ELSE proc' = [proc EXCEPT ![p].pc = "loaded",
                                 ![p].tasks = readTasks(file),
                                 ![p].snap = file]
    /\ UNCHANGED <<file, req, pre, res, ref, scen, worder>>

\* The rest of the handler: the change to the loaded tasks, the write of the
\* whole list and the response.
RaceStore(p) ==
    /\ proc[p].pc = "loaded"
    /\ LET out == IF proc[p].req.op = "add"
                  THEN ApiPostLoaded(file, LoadedTasks(p), proc[p].req.task)
                  ELSE ApiDeleteLoaded(file, LoadedTasks(p), proc[p].req.param)
       IN /\ file' = out.file
          /\ proc' = [proc EXCEPT ![p].pc = "done", ![p].res = out.res]
          /\ worder' = IF Succeeded(out.res) THEN Append(worder, p) ELSE worder
    /\ UNCHANGED <<req, pre, res, ref, scen>>

RaceNext == \E p \in Procs : RaceReceive(p) \/ RaceLoad(p) \/ RaceStore(p)

SpecRace == Init /\ [][RaceNext]_vars

(* ------------------------------------------------------------------ *)
(* One server process with several requests in flight: a handler is a  *)
(* synchronous function (readFileSync, writeFileSync, no callback and  *)
(* no await), so the event loop calls the next handler only when the   *)
(* one running has returned                                            *)
(* ------------------------------------------------------------------ *)

\* StackEmpty as it would be were the file read and written asynchronously:
\* the event loop may call a handler while another waits for its I/O.
StackEmptyAsync == TRUE

\* No handler is between its readTasks() and its response.
StackEmpty == \A q \in Procs : proc[q].pc # "loaded"

\* The event loop calls the handler of request h.
LoopInvoke(h) == StackEmpty /\ RaceLoad(h)

LoopNext == \E h \in Procs : RaceReceive(h) \/ LoopInvoke(h) \/ RaceStore(h)

SpecLoop == Init /\ [][LoopNext]_vars

(* ------------------------------------------------------------------ *)
(* Properties                                                          *)
(* ------------------------------------------------------------------ *)

\* The file holds a serialized sequence; the sequence it holds.
IsListFile(f) ==
    f.exists /\ JSONparse(f.data).ok /\ JSONparse(f.data).val.kind = "arr"
StoredList(f) == JSONparse(f.data).val.items

\* What list() answers on the store as it is now, by either router.
Listed(f) == {ApiList(f).res, ViewList(f).res}

\* C1: on a store holding a sequence S, add(t) with a non-empty task t
\* succeeds and leaves the store holding S with t appended as its last
\* element (length + 1, every element of S in place, duplicates accepted), and
\* a following list() returns that sequence.
C1_AddAppends ==
    (req.op = "add" /\ IsListFile(pre) /\ req.task \in Tasks) =>
        LET S == StoredList(pre)
        IN /\ Succeeded(res)
           /\ IsListFile(file)
           /\ Len(StoredList(file)) = Len(S) + 1
           /\ \A k \in 1..Len(S) : StoredList(file)[k] = S[k]
           /\ StoredList(file)[Len(S) + 1] = req.task
           /\ \A r \in Listed(file) :
                  r.status = 200 /\ r.tasks = Arr(Append(S, req.task))

\* An add of a task the list of two already holds has been served.
C1_Witness ==
    /\ req.op = "add" /\ IsListFile(pre) /\ req.task \in Tasks
    /\ Len(StoredList(pre)) = 2
    /\ StoredList(pre)[1] = req.task
    /\ StoredList(pre)[2] # req.task
    /\ Succeeded(res)

\* The index of a remove is a whole integer literal inside the stored list.
InRange(f, param) ==
    /\ IsListFile(f)
    /\ IsIntLiteral(param)
    /\ LiteralValue(param) \in 0..(Len(StoredList(f)) - 1)

\* C2: on a store holding S, removeAt(i) with 0 <= i < length(S) leaves the
\* store holding S without the element at position i: the elements before i
\* keep their position, those after it move down by one, length - 1.
C2_RemoveAtRemoves ==
    (req.op = "remove" /\ InRange(pre, req.param)) =>
        LET S == StoredList(pre)
            i == LiteralValue(req.param)
        IN /\ Succeeded(res)
           /\ IsListFile(file)
           /\ Len(StoredList(file)) = Len(S) - 1
           /\ \A k \in 1..(Len(S) - 1) :
                  StoredList(file)[k] = IF k <= i THEN S[k] ELSE S[k + 1]

\* A remove of the middle element of three different neighbours was served.
C2_Witness ==
    /\ req.op = "remove" /\ InRange(pre, req.param)
    /\ Len(StoredList(pre)) = 3
    /\ LiteralValue(req.param) = 1
    /\ StoredList(pre)[1] # StoredList(pre)[2]
    /\ Succeeded(res)

\* C3: the deletedTask of a successful DELETE /tasks/:index is the element
\* that was at position i before the removal, the task value itself.
C3_DeletedTaskIsTheTask ==
    (req.op = "remove" /\ req.router = "api" /\ InRange(pre, req.param)
        /\ res.status = 200) =>
        res.deletedTask = StoredList(pre)[LiteralValue(req.param) + 1]

\* What the code reports instead: the array holding that one element.
C3_DeletedTaskIsOneElementArray ==
    (req.op = "remove" /\ req.router = "api" /\ InRange(pre, req.param)
        /\ res.status = 200) =>
        res.deletedTask = Arr(<<StoredList(pre)[LiteralValue(req.param) + 1]>>)

\* The sequence a store holds when it is a list or absent.
SequenceOf(f) == IF IsListFile(f) THEN StoredList(f) ELSE <<>>

\* C4: on a store holding S (or absent, S empty), removeAt(i) with an integer
\* i < 0 or i >= length(S) fails with the invalid-index error (400) and the
\* store is left exactly as it was.
C4_OutOfRangeRejected ==
    (req.op = "remove" /\ (pre = Absent \/ IsListFile(pre))
        /\ IsIntLiteral(req.param)
        /\ LiteralValue(req.param) \notin 0..(Len(SequenceOf(pre)) - 1)) =>
        /\ res.status = 400
        /\ res.text = "Invalid task index"
        /\ file = pre

\* A remove with a negative index was refused on a list of two.
C4_Witness ==
    /\ req.op = "remove" /\ IsListFile(pre)
    /\ Len(StoredList(pre)) = 2
    /\ IsIntLiteral(req.param) /\ LiteralValue(req.param) < 0
    /\ res.status = 400

\* C5: removeAt with an index that is not an integer (non-numeric text, or
\* text that is not a whole integer literal, such as 1.5 or 1abc) fails with
\* the invalid-index error and leaves the store unchanged, whatever the
\* length of the sequence.
C5_NonIntegerRejected ==
    (req.op = "remove" /\ (pre = Absent \/ IsListFile(pre))
        /\ ~IsIntLiteral(req.param)) =>
        /\ res.status = 400
        /\ res.text = "Invalid task index"
        /\ file = pre

\* What holds of the code: non-numeric text (parseInt gives NaN) is refused.
C5_NonNumericRejected ==
    (req.op = "remove" /\ (pre = Absent \/ IsListFile(pre))
        /\ req.param = <<"a", "b", "c">>) =>
        /\ res.status = 400
        /\ file = pre

\* C6: add with an absent, null or empty-string task fails with the
\* validation error (400, "Task is required") and the store is left exactly
\* as it was, whatever it was: absent, malformed or a sequence.
C6_EmptyTaskRejected ==
    (req.op = "add" /\ req.task \in {Undefined, Null, Str("")}) =>
        /\ res.status = 400
        /\ res.text = "Task is required"
        /\ file = pre

\* An add of the empty string was refused on a store that is not a list.
C6_Witness ==
    /\ req.op = "add" /\ req.task = Str("")
    /\ pre \in NonArrayFiles
    /\ res.status = 400

\* C7: list() never fails and returns the empty sequence whenever the store
\* is absent or its content is not a valid serialized sequence, be it text
\* that does not parse or text that parses to something that is no array.
C7_ListOfBadStoreIsEmpty ==
    (req.op = "list" /\ ~IsListFile(pre)) =>
        res.status = 200 /\ res.tasks = Arr(<<>>)

\* What holds of the code: the store absent or not parsing at all.
C7_ListOfUnparsableStoreIsEmpty ==
    (req.op = "list" /\ (pre = Absent \/ pre \in UnparsableFiles)) =>
        res.status = 200 /\ res.tasks = Arr(<<>>)

\* C8: on a store that is absent or no valid serialized sequence, add(t) with
\* a valid task succeeds and leaves the store holding [t], and removeAt(i)
\* fails with the invalid-index error for every i; neither throws.
C8_MutationsTolerateBadStore ==
    ~IsListFile(pre) =>
        /\ (req.op = "add" /\ req.task \in Tasks) =>
               /\ Succeeded(res)
               /\ IsListFile(file) /\ StoredList(file) = <<req.task>>
        /\ req.op = "remove" =>
               res.status = 400 /\ res.text = "Invalid task index"

\* What holds of the code: the same with the store absent or not parsing.
C8_MutationsTolerateUnparsableStore ==
    (pre = Absent \/ pre \in UnparsableFiles) =>
        /\ (req.op = "add" /\ req.task \in Tasks) =>
               /\ Succeeded(res)
               /\ IsListFile(file) /\ StoredList(file) = <<req.task>>
        /\ req.op = "remove" =>
               res.status = 400 /\ res.text = "Invalid task index"

\* C9: from an empty store, after every call list() is the reference list:
\* the successful adds and removes applied in call order to the empty
\* sequence, failed calls adding nothing; and add("Buy milk"),
\* add("Walk dog"), removeAt(0), removeAt(5) gives ["Buy milk"], then
\* ["Buy milk", "Walk dog"], then ["Walk dog"], then the same with
\* removeAt(5) failing.
C9_ReadAfterWrite ==
    /\ \A r \in Listed(file) : r.status = 200 /\ r.tasks = Arr(ref)
    /\ scen = 1 => ref = <<BuyMilk>>
    /\ scen = 2 => ref = <<BuyMilk, WalkDog>>
    /\ scen = 3 => ref = <<WalkDog>>
    /\ scen = 4 => ref = <<WalkDog>>
    /\ (scen = 4 /\ req.op = "remove") => res.status = 400

\* What holds of the code: the scenario itself.
C9_ScenarioHolds ==
    \A r \in Listed(file) :
        /\ scen = 1 => r.tasks = Arr(<<BuyMilk>>)
        /\ scen = 2 => r.tasks = Arr(<<BuyMilk, WalkDog>>)
        /\ scen = 3 => r.tasks = Arr(<<WalkDog>>)
        /\ scen = 4 => r.tasks = Arr(<<WalkDog>>)
        /\ (scen = 4 /\ req.op = "remove") => res.status = 400

\* What holds of the code: a call keeps list() equal to the reference list
\* unless it is a remove whose index is no whole integer literal.
C9_ReadAfterWriteIntegerIndices ==
    [][((\A r \in Listed(file) : r.tasks = Arr(ref))
          /\ ~(req'.op = "remove" /\ ~IsIntLiteral(req'.param)))
       => (\A r \in Listed(file') : r.tasks = Arr(ref'))]_vars

\* Both processes answered success after loading the same snapshot.
BothSucceededOnOneSnapshot ==
    /\ \A p \in Procs : proc[p].pc = "done" /\ Succeeded(proc[p].res)
    /\ proc[1].snap = proc[2].snap
    /\ Len(worder) = 2

\* The change in length a successful request makes.
Delta(r) == IF r.op = "add" THEN 1 ELSE -1

\* C10: without locking, two mutating operations that both read before
\* either writes both report success, and the store then holds the snapshot
\* with the second writer's change alone: the first update is lost.
C10_LostUpdate ==
    BothSucceededOnOneSnapshot =>
        LET S == readTasks(proc[1].snap).items
            second == proc[worder[2]]
            first == proc[worder[1]]
            T == StoredList(file)
        IN /\ IsListFile(file)
           /\ Arr(T) = second.res.tasks
           /\ Len(T) = Len(S) + Delta(second.req)
           /\ Len(T) # Len(S) + Delta(first.req) + Delta(second.req)
           /\ second.req.op = "add" => T = Append(S, second.req.task)
           /\ second.req.op = "remove" =>
                  \E i \in 0..(Len(S) - 1) : T = RemoveAt(S, i)

\* Two adds of different tasks raced on a list of one and both succeeded.
C10_Witness ==
    /\ BothSucceededOnOneSnapshot
    /\ IsListFile(proc[1].snap) /\ Len(StoredList(proc[1].snap)) = 1
    /\ proc[1].req.op = "add" /\ proc[2].req.op = "add"
    /\ proc[1].req.task # proc[2].req.task
    /\ Len(StoredList(file)) = 2

\* POST /tasks or DELETE /tasks/:index, run alone on the store f.
ApiApply(f, r) ==
    IF r.op = "add" THEN ApiPost(f, r.task) ELSE ApiDelete(f, r.param)

\* The store and both responses are those of request a run alone on the
\* initial store, then request b run alone on what a left.
SerialRun(a, b) ==
    LET first == ApiApply(pre, proc[a].req)
        second == ApiApply(first.file, proc[b].req)
    IN /\ file = second.file
       /\ proc[a].res = first.res
       /\ proc[b].res = second.res

AllDone == \A h \in Procs : proc[h].pc = "done"

\* The change in length the request of h made: none when it was refused.
Gain(h) == IF Succeeded(proc[h].res) THEN Delta(proc[h].req) ELSE 0

\* C11: within one server process a handler runs to completion: while it is
\* between its read and its write no other handler is, and the store is still
\* the one it read; so once the requests are all answered the store and the
\* responses are those of the requests run one at a time in some order, and
\* every successful update is in the store.
C11_RunToCompletion ==
    /\ \A h \in Procs : proc[h].pc = "loaded" =>
           /\ file = proc[h].snap
           /\ \A q \in Procs \ {h} : proc[q].pc # "loaded"
    /\ AllDone =>
           /\ SerialRun(1, 2) \/ SerialRun(2, 1)
           /\ Len(SequenceOf(file)) = Len(SequenceOf(pre)) + Gain(1) + Gain(2)

\* Two adds of different tasks to a list of one were both answered success.
C11_Witness ==
    /\ AllDone
    /\ \A h \in Procs : proc[h].req.op = "add" /\ Succeeded(proc[h].res)
    /\ proc[1].req.task # proc[2].req.task
    /\ IsListFile(pre) /\ Len(StoredList(pre)) = 1
    /\ Len(StoredList(file)) = 3

\* The handler the routers call for request r, run on the store f.
Handle(f, r) ==
    CASE r.router = "api" /\ r.op = "list" -> ApiList(f)
      [] r.router = "api" /\ r.op = "add" -> ApiPost(f, r.task)
      [] r.router = "api" /\ r.op = "remove" -> ApiDelete(f, r.param)
      [] r.router = "view" /\ r.op = "list" -> ViewList(f)
      [] r.router = "view" /\ r.op = "add" -> ViewPost(f, r.task)
      [] OTHER -> ViewDelete(f, r.param)

\* C12: only a successful mutation writes the store. list(), a refused add
\* and a refused removeAt leave the file as it was, so an absent file becomes
\* present only by a successful add; a successful add or remove leaves the
\* file holding the whole new sequence; and what a call does is decided by
\* the file as it found it and its input alone.
C12_OnlySuccessfulMutationWrites ==
    req.op # "none" =>
        /\ (req.op = "list" \/ ~Succeeded(res)) => file = pre
        /\ (pre = Absent /\ file # Absent) => (req.op = "add" /\ Succeeded(res))
        /\ (req.op = "add" /\ Succeeded(res)) =>
               /\ IsListFile(file)
               /\ StoredList(file) = Append(SequenceOf(pre), req.task)
        /\ (req.op = "remove" /\ Succeeded(res)) =>
               /\ IsListFile(pre) /\ IsListFile(file)
               /\ Len(StoredList(file)) = Len(StoredList(pre)) - 1
               /\ req.router = "api" => res.tasks = Arr(StoredList(file))
        /\ Outcome(file, res) = Handle(pre, req)

\* The file, still absent after an earlier call that was no list(), came to
\* be by a successful add.
C12_Witness ==
    /\ pre = Absent
    /\ scen = -1
    /\ req.op = "add" /\ req.task = BuyMilk /\ Succeeded(res)
    /\ file = Holding(<<LBrack, Tok("str", BuyMilk), RBrack>>)

\* Two responses say the same: both success (200 by the API, the redirect by
\* the view), or the same failure status.
SameVerdict(a, v) ==
    \/ Succeeded(a) /\ Succeeded(v)
    \/ ~Succeeded(a) /\ ~Succeeded(v) /\ a.status = v.status

\* C13: the two routers make the same store transitions. On every store and
\* for every task, POST /tasks and POST /add both accept or both refuse and
\* leave the same file; for every index, DELETE /tasks/:index and
\* GET /delete/:index both accept or both refuse and leave the same file; so
\* the file a served request left is the file the other router would have left.
C13_RoutersAgree ==
    /\ \A t \in TaskInputs :
           /\ ApiPost(file, t).file = ViewPost(file, t).file
           /\ SameVerdict(ApiPost(file, t).res, ViewPost(file, t).res)
    /\ \A i \in IndexParams :
           /\ ApiDelete(file, i).file = ViewDelete(file, i).file
           /\ SameVerdict(ApiDelete(file, i).res, ViewDelete(file, i).res)
    /\ req.op \in {"add", "remove"} =>
           /\ file = ApiApply(pre, req).file
           /\ SameVerdict(ApiApply(pre, req).res, res)

\* The view router served a remove of index 1.5 on a list of three, as the
\* API router would have.
C13_Witness ==
    /\ req.router = "view" /\ req.op = "remove"
    /\ req.param = <<"1", ".", "5">>
    /\ IsListFile(pre) /\ Len(StoredList(pre)) = 3
    /\ Succeeded(res)
    /\ file = ApiDelete(pre, req.param).file

====
